---- MODULE Spec2Model ----
(***************************************************************************)
(* Model of run.py, the Sutton Kersh property auction scraper: main()      *)
(* fetches the listings page (local file or one HTTP GET with a snapshot   *)
(* write-back), get_rows_from_page() lazily turns every header row into a  *)
(* row dict, and output_csv() writes the header line and one record per    *)
(* row to standard output.                                                 *)
(*                                                                         *)
(* Text is a sequence of one-character strings.  A Python value is a       *)
(* tagged record: None, an int, a str, a bool, a float (kept as an exact   *)
(* fraction n/d) or a raised exception.                                    *)
(***************************************************************************)
EXTENDS Integers, Sequences, FiniteSets, TLC

VARIABLES argv, page, pc, exc, response, gets, sample_page, writes,
          html_string, stdout, i, row

vars == <<argv, page, pc, exc, response, gets, sample_page, writes,
          html_string, stdout, i, row>>

----------------------------------------------------------------------------
(* Bounds of the model *)

\* longest page, in table rows
MaxTrs == 4
\* longest tail after "Guide Price: £" in a generated status cell
MaxTail == 5
\* most segments in a generated description
MaxSegs == 4

----------------------------------------------------------------------------
(* Python values *)

None == [t |-> "none"]
PyInt(n) == [t |-> "int", int |-> n]
PyStr(s) == [t |-> "str", str |-> s]
PyBool(b) == [t |-> "bool", bool |-> b]
PyFloat(n, d) == [t |-> "float", n |-> n, d |-> d]
PyList(items) == [t |-> "list", items |-> items]
Element(e) == [t |-> "elem", e |-> e]
Raise(e) == [t |-> "raise", exc |-> e]

IsNone(v) == v.t = "none"
IsRaise(v) == v.t = "raise"

\* Python truth value of an int-or-None
Truthy(v) == v.t = "int" /\ v.int # 0

\* true division of two ints / of an int by a fraction rn/rd
TrueDiv(a, b) == PyFloat(a, b)
DivByRate(a, rn, rd) == PyFloat(a * rd, rn)

----------------------------------------------------------------------------
(* Text helpers *)

Digits == <<"0", "1", "2", "3", "4", "5", "6", "7", "8", "9">>
DigitSet == {Digits[k] : k \in 1..10}
DigitValue(c) == (CHOOSE k \in 1..10 : Digits[k] = c) - 1

Whitespace == {" ", "\n", "\t", "\r"}

UpperCase == <<"A","B","C","D","E","F","G","H","I","J","K","L","M",
               "N","O","P","Q","R","S","T","U","V","W","X","Y","Z">>
LowerCase == <<"a","b","c","d","e","f","g","h","i","j","k","l","m",
               "n","o","p","q","r","s","t","u","v","w","x","y","z">>

\* str.lower()
Lower(s) ==
    [k \in 1..Len(s) |->
        IF \E j \in 1..26 : UpperCase[j] = s[k]
        THEN LowerCase[CHOOSE j \in 1..26 : UpperCase[j] = s[k]]
        ELSE s[k]]

Least(S) == CHOOSE k \in S : \A j \in S : k <= j
Greatest(S) == CHOOSE k \in S : \A j \in S : k >= j

\* s without the characters before the first and after the last position
\* of kept
Between(s, kept) ==
    IF kept = {} THEN <<>> ELSE SubSeq(s, Least(kept), Greatest(kept))

\* str.strip()
Strip(s) == Between(s, {k \in 1..Len(s) : s[k] \notin Whitespace})

\* str.replace(c, '')
Remove(s, c) == SelectSeq(s, LAMBDA x : x # c)

\* sub occurs in s starting at position p
HasAt(s, p, sub) ==
    /\ p >= 1
    /\ p + Len(sub) - 1 <= Len(s)
    /\ \A k \in 1..Len(sub) : s[p + k - 1] = sub[k]

\* sub in s
Contains(s, sub) == \E p \in 1..(Len(s) + 1) : HasAt(s, p, sub)

\* length of the longest run of characters of class cls starting at p
RunLen(s, p, cls) ==
    Least({k \in p..(Len(s) + 1) : k = Len(s) + 1 \/ s[k] \notin cls}) - p

RECURSIVE DigitsValue(_)
DigitsValue(s) ==
    IF s = <<>> THEN 0
    ELSE 10 * DigitsValue(SubSeq(s, 1, Len(s) - 1)) + DigitValue(s[Len(s)])

RECURSIVE IntText(_)
\* str(n) for n >= 0
IntText(n) ==
    IF n < 10 THEN <<Digits[n + 1]>>
    ELSE Append(IntText(n \div 10), Digits[(n % 10) + 1])

RECURSIVE Flatten(_)
Flatten(ss) == IF ss = <<>> THEN <<>> ELSE Head(ss) \o Flatten(Tail(ss))

SeqsUpTo(S, n) == UNION {[1..k -> S] : k \in 0..n}

----------------------------------------------------------------------------
(* Program constants *)

\* PAGE_ENCODING
PAGE_ENCODING == "utf-8"

\* the columns of the CSV, in order
FIELDS ==
    <<"lot_number", "street_address", "postcode", "status",
      "guide_price_low", "guide_price_high", "_yield_guide_price_high",
      "_price_10pct_yield", "_price_12.5pct_yield", "_price_15pct_yield",
      "_price_20pct_yield", "has_assured_shorthold_tenancy",
      "ast_annual_income", "description", "detail_url", "photo_url">>

FieldSet == {FIELDS[k] : k \in 1..Len(FIELDS)}

\* the site origin _make_absolute_url prefixes
Origin ==
    <<"h","t","t","p",":","/","/","w","w","w",".","s","u","t","t","o","n",
      "k","e","r","s","h",".","c","o",".","u","k">>

\* 'Guide Price: £', the literal both status patterns start with
GuidePrefix ==
    <<"G","u","i","d","e"," ","P","r","i","c","e",":"," ","£">>

\* ' per annum', the literal that ends the income pattern
PerAnnum == <<" ","p","e","r"," ","a","n","n","u","m">>

\* 'assured shorthold'
AssuredShorthold ==
    <<"a","s","s","u","r","e","d"," ","s","h","o","r","t","h","o","l","d">>

\* the regular expression classes [0-9,] and [0-9,.]
PriceClass == DigitSet \cup {","}
IncomeClass == DigitSet \cup {",", "."}

----------------------------------------------------------------------------
(* PropertyRowParser.  A table row (tr) is a record: header (its id        *)
(* contains 'header_'), td (the text of its td children), p (the text of   *)
(* its descriptionText paragraphs), a (the attributes of its 'Details'     *)
(* anchors) and img (the attributes of its lotImage images).               *)

\* list[n], with Python's IndexError
Index(list, n) ==
    IF n + 1 <= Len(list.items) THEN Element(list.items[n + 1])
    ELSE Raise("IndexError")

\* element.attrib[name], with Python's KeyError
Attrib(el, name) ==
    IF IsRaise(el) THEN el
    ELSE IF name \in DOMAIN el.e THEN PyStr(el.e[name])
    ELSE Raise("KeyError")

\* PropertyRowParser.text
text(list_of_one_element) ==
    IF IsRaise(list_of_one_element) THEN list_of_one_element
    ELSE IF list_of_one_element.t = "list"
    THEN IF Len(list_of_one_element.items) # 1 THEN Raise("AssertionError")
         ELSE PyStr(Strip(list_of_one_element.items[1]))
    ELSE PyStr(Strip(list_of_one_element.e))

\* int(float(s)) for s made of digits and periods; float() rejects
\* anything but digits around at most one period, with a digit somewhere
IntOfFloat(s, dots) ==
    IF /\ \A k \in 1..Len(s) : s[k] \in DigitSet \cup {"."}
       /\ Cardinality(dots) <= 1
       /\ \E k \in 1..Len(s) : s[k] \in DigitSet
    THEN PyInt(DigitsValue(IF dots = {} THEN s
                           ELSE SubSeq(s, 1, Least(dots) - 1)))
    ELSE Raise("ValueError")

FloatInt(s) == IntOfFloat(s, {k \in 1..Len(s) : s[k] = "."})

\* PropertyRowParser.price: int(float(price_string.replace(',', '').strip()))
price(price_string) == FloatInt(Strip(Remove(price_string, ",")))

\* PropertyRowParser._make_absolute_url
make_absolute_url(path) ==
    IF IsRaise(path) THEN path ELSE PyStr(Origin \o path.str)

\* header_tr.xpath('./td')
XPathTd(header_tr) == PyList(header_tr.td)

lot_number(header_tr) == text(Index(XPathTd(header_tr), 0))
street_address(header_tr) == text(Index(XPathTd(header_tr), 1))
postcode(header_tr) == text(Index(XPathTd(header_tr), 2))
\* status read from cell 2
status_from_third_cell(header_tr) == text(Index(XPathTd(header_tr), 2))

status(header_tr) == text(Index(XPathTd(header_tr), 3))

\* element.text_content()
text_content(el) == IF IsRaise(el) THEN el ELSE PyStr(el.e)

\* detail_tr.xpath(DESCRIPTION_P)[0].text_content()
description(detail_tr) == text_content(Index(PyList(detail_tr.p), 0))

detail_url(detail_tr) ==
    make_absolute_url(Attrib(Index(PyList(detail_tr.a), 0), "href"))

photo_url(detail_tr) ==
    make_absolute_url(Attrib(Index(PyList(detail_tr.img), 0), "src"))

\* `$`: the end of the string, or just before a newline that ends it
AtDollar(s, pos) == pos = Len(s) + 1 \/ (pos = Len(s) /\ s[pos] = "\n")

\* the greatest triple of a set of triples, first component first: the
\* match a backtracking matcher with greedy quantifiers finds first
Greediest(T) ==
    CHOOSE x \in T : \A y \in T :
        \/ x[1] > y[1]
        \/ (x[1] = y[1] /\ x[2] > y[2])
        \/ (x[1] = y[1] /\ x[2] = y[2] /\ x[3] >= y[3])

\* the same with a '.' that also matches a newline
RangeTailsDotAll(s, c, k) ==
    UNION {{<<k, m, n>> : n \in {n \in 1..(Len(s) - c - m - 1) :
                                    /\ \A j \in (c + m + 1)..(c + m + n) :
                                          s[j] \in PriceClass
                                    /\ s[c + m + n + 1] = "*"
                                    /\ AtDollar(s, c + m + n + 2)}} :
           m \in {m \in 1..(Len(s) - c) : s[c + m] = "£"}}

\* the ways '.+£(?P<high>[0-9,]+)\*$' matches s from position c on, as
\* the lengths <<k, .+, high>>
RangeTails(s, c, k) ==
    UNION {{<<k, m, n>> : n \in {n \in 1..(Len(s) - c - m - 1) :
                                    /\ \A j \in (c + m + 1)..(c + m + n) :
                                          s[j] \in PriceClass
                                    /\ s[c + m + n + 1] = "*"
                                    /\ AtDollar(s, c + m + n + 2)}} :
           m \in {m \in 1..(Len(s) - c) :
                    /\ s[c + m] = "£"
                    /\ \A j \in c..(c + m - 1) : s[j] # "\n"}}

\* re.match(r'Guide Price: £(?P<low>[0-9,]+).+£(?P<high>[0-9,]+)\*$', s):
\* the lengths <<low, .+, high>> of every way the pattern matches
RangeMatches(s) ==
    IF ~HasAt(s, 1, GuidePrefix) THEN {}
    ELSE UNION {RangeTails(s, Len(GuidePrefix) + 1 + k, k) :
                k \in 1..RunLen(s, Len(GuidePrefix) + 1, PriceClass)}

\* re.match(r'Guide Price: £(?P<price>[0-9,]+)\+\*$', s): the lengths of
\* price for every way the pattern matches
PlusMatches(s) ==
    IF ~HasAt(s, 1, GuidePrefix) THEN {}
    ELSE {k \in 1..RunLen(s, Len(GuidePrefix) + 1, PriceClass) :
            /\ Len(GuidePrefix) + k + 2 <= Len(s)
            /\ s[Len(GuidePrefix) + 1 + k] = "+"
            /\ s[Len(GuidePrefix) + 2 + k] = "*"
            /\ AtDollar(s, Len(GuidePrefix) + 3 + k)}

\* a Python pair, or the exception raised while building it
Pair(x, y) ==
    IF IsRaise(x) THEN x
    ELSE IF IsRaise(y) THEN y
    ELSE [t |-> "tuple", low |-> x, high |-> y]

\* the groups low and high of the range match m, as prices
RangePrices(s, m) ==
    Pair(price(SubSeq(s, Len(GuidePrefix) + 1, Len(GuidePrefix) + m[1])),
         price(SubSeq(s, Len(GuidePrefix) + m[1] + m[2] + 2,
                      Len(GuidePrefix) + m[1] + m[2] + m[3] + 1)))

\* the group price of the single-value match of length k, as (price, price)
PlusPrices(s, k) ==
    Pair(price(SubSeq(s, Len(GuidePrefix) + 1, Len(GuidePrefix) + k)),
         price(SubSeq(s, Len(GuidePrefix) + 1, Len(GuidePrefix) + k)))

\* the two patterns of _parse_guide_price_range, tried in order, given
\* their matches
GuidePrices(s, range, plus) ==
    IF range # {} THEN RangePrices(s, Greediest(range))
    ELSE IF plus # {} THEN PlusPrices(s, Greatest(plus))
    ELSE Pair(None, None)

\* PropertyRowParser._parse_guide_price_range
parse_guide_price_range(st) ==
    IF IsRaise(st) THEN st
    ELSE GuidePrices(st.str, RangeMatches(st.str), PlusMatches(st.str))

\* r[0] and r[1] of the pair r
First(r) == IF IsRaise(r) THEN r ELSE r.low
Second(r) == IF IsRaise(r) THEN r ELSE r.high

guide_price_low(header_tr) == First(parse_guide_price_range(status(header_tr)))

guide_price_high(header_tr) == Second(parse_guide_price_range(status(header_tr)))

\* sub in s.lower()
InLower(d, sub) ==
    IF IsRaise(d) THEN d ELSE PyBool(Contains(Lower(d.str), sub))

\* 'assured shorthold' in self.description.lower()
has_assured_shorthold_tenancy(detail_tr) ==
    InLower(description(detail_tr), AssuredShorthold)

\* re.search('£(?P<income>[0-9,.]+) per annum', s): <<start, length>> of
\* income for every way the pattern matches
IncomeMatches(s) ==
    UNION {{<<p, k>> : k \in {k \in 1..RunLen(s, p, IncomeClass) :
                                 HasAt(s, p + k, PerAnnum)}} :
           p \in {p \in 2..Len(s) : s[p - 1] = "£"}}

\* the leftmost match, its greedy group the longest
Leftmost(M) ==
    CHOOSE x \in M : \A y \in M :
        x[1] < y[1] \/ (x[1] = y[1] /\ x[2] >= y[2])

\* the group income of the match m, as a price
IncomePrice(s, m) == price(SubSeq(s, m[1], m[1] + m[2] - 1))

\* ast_annual_income without the test of the tenancy flag
AnnualIncomeWhateverTenancy(flag, d) ==
    IF IsRaise(flag) THEN flag
    ELSE IF IncomeMatches(d.str) = {} THEN None
    ELSE IncomePrice(d.str, Leftmost(IncomeMatches(d.str)))

\* the body of ast_annual_income, given the flag and the description
AnnualIncome(flag, d) ==
    IF IsRaise(flag) THEN flag
    ELSE IF ~flag.bool THEN None
    ELSE IF IncomeMatches(d.str) = {} THEN None
    ELSE IncomePrice(d.str, Leftmost(IncomeMatches(d.str)))

\* PropertyRowParser.ast_annual_income
ast_annual_income(detail_tr) ==
    AnnualIncome(has_assured_shorthold_tenancy(detail_tr),
                 description(detail_tr))

\* the parser object, given header_tr and the result of
\* header_tr.xpath('./following-sibling::tr')[0]
NewParser(header_tr, detail) ==
    IF IsRaise(detail) THEN detail
    ELSE [t |-> "parser", header_tr |-> header_tr, detail_tr |-> detail.e]

\* __init__ taking the last following sibling instead of the first
PropertyRowParserLastSibling(pg, k) ==
    NewParser(pg[k],
              Index(PyList(SubSeq(pg, IF k < Len(pg) THEN Len(pg) ELSE k + 1,
                                  Len(pg))), 0))

\* PropertyRowParser.__init__, for the header row at position k of the page
PropertyRowParser(pg, k) ==
    NewParser(pg[k], Index(PyList(SubSeq(pg, k + 1, Len(pg))), 0))

\* the keys of the dict as_dict builds, in the order it evaluates them
DictKeys ==
    <<"lot_number", "street_address", "postcode", "status", "description",
      "detail_url", "photo_url", "guide_price_low", "guide_price_high",
      "has_assured_shorthold_tenancy", "ast_annual_income">>

\* the dict of the values vals, or the first exception among them
DictOf(vals) ==
    IF \E j \in 1..Len(vals) : IsRaise(vals[j])
    THEN vals[Least({j \in 1..Len(vals) : IsRaise(vals[j])})]
    ELSE [t |-> "dict",
          d |-> [f \in {DictKeys[j] : j \in 1..Len(DictKeys)} |->
                   vals[CHOOSE j \in 1..Len(DictKeys) : DictKeys[j] = f]]]

\* PropertyRowParser.as_dict: the dict, or the first exception raised
as_dict(self) ==
    IF IsRaise(self) THEN self
    ELSE DictOf(<<lot_number(self.header_tr),
                  street_address(self.header_tr),
                  postcode(self.header_tr),
                  status(self.header_tr),
                  description(self.detail_tr),
                  detail_url(self.detail_tr),
                  photo_url(self.detail_tr),
                  guide_price_low(self.header_tr),
                  guide_price_high(self.header_tr),
                  has_assured_shorthold_tenancy(self.detail_tr),
                  ast_annual_income(self.detail_tr)>>)

YieldKeys ==
    {"_price_10pct_yield", "_price_12.5pct_yield", "_price_15pct_yield",
     "_price_20pct_yield"}

\* the keys add_calculations adds for these two values
AddedKeys(annual_income, guide_price_high_) ==
    (IF Truthy(annual_income) THEN YieldKeys ELSE {})
    \cup (IF Truthy(annual_income) /\ Truthy(guide_price_high_)
          THEN {"_yield_guide_price_high"} ELSE {})

\* the value add_calculations stores under the key f
Calculation(f, annual_income, guide_price_high_) ==
    IF f = "_price_10pct_yield" THEN DivByRate(annual_income.int, 1, 10)
    ELSE IF f = "_price_12.5pct_yield" THEN DivByRate(annual_income.int, 1, 8)
    ELSE IF f = "_price_15pct_yield" THEN DivByRate(annual_income.int, 3, 20)
    ELSE IF f = "_price_20pct_yield" THEN DivByRate(annual_income.int, 1, 5)
    ELSE TrueDiv(guide_price_high_.int, annual_income.int * 100)

\* add_calculations
add_calculations(r) ==
    IF IsRaise(r) THEN r
    ELSE [t |-> "dict",
          d |-> [f \in DOMAIN r.d \cup AddedKeys(r.d["ast_annual_income"],
                                                 r.d["guide_price_high"]) |->
                   IF f \in DOMAIN r.d THEN r.d[f]
                   ELSE Calculation(f, r.d["ast_annual_income"],
                                    r.d["guide_price_high"])]]

\* root.xpath(TABLE_ROW_XPATH): the positions of the header rows, in
\* document order
HeaderTrs(pg) ==
    SelectSeq([k \in 1..Len(pg) |-> k], LAMBDA k : pg[k].header)

\* one turn of the loop of get_rows_from_page, up to its yield
RowFor(pg, k) == add_calculations(as_dict(PropertyRowParser(pg, k)))

----------------------------------------------------------------------------
(* csv.DictWriter *)

\* a csv writer that writes None as 'None'
CsvTextNoneSpelled(v) ==
    IF v.t = "none" THEN <<"N","o","n","e">>
    ELSE IF v.t = "str" THEN v.str
    ELSE IF v.t = "int" THEN IntText(v.int)
    ELSE IF v.t = "bool"
         THEN (IF v.bool THEN <<"T","r","u","e">> ELSE <<"F","a","l","s","e">>)
    ELSE IntText(v.n) \o <<"/">> \o IntText(v.d)

\* the text the csv writer puts in a cell; a float is written as the
\* fraction it stands for
CsvText(v) ==
    IF v.t = "none" THEN <<>>
    ELSE IF v.t = "str" THEN v.str
    ELSE IF v.t = "int" THEN IntText(v.int)
    ELSE IF v.t = "bool"
         THEN (IF v.bool THEN <<"T","r","u","e">> ELSE <<"F","a","l","s","e">>)
    ELSE IntText(v.n) \o <<"/">> \o IntText(v.d)

\* DictWriter.writerow: one cell per column, '' for a missing key
CsvRecord(d) ==
    [j \in 1..Len(FIELDS) |->
        IF FIELDS[j] \in DOMAIN d THEN CsvText(d[FIELDS[j]]) ELSE <<>>]

----------------------------------------------------------------------------
(* Inputs: the pages the runs are checked on *)

Tr(h, td, p, a, img) == [header |-> h, td |-> td, p |-> p, a |-> a, img |-> img]

DetailsHref == [href |-> <<"/","l","o","t","/","1">>]
LotImageSrc == [src |-> <<"/","i","m","g","/","1",".","j","p","g">>]

LotText == <<" ","1","\n">>
AddressText == <<"1"," ","H","i","g","h"," ","S","t">>
PostcodeText == <<"L","4">>
ExtraText == <<"x">>

StatusRange ==
    GuidePrefix \o <<"1","0","0",",","0","0","0","-","£","1","2","0",",",
                     "0","0","0","*">>
StatusPlus == GuidePrefix \o <<"2","5","0",",","0","0","0","+","*">>
StatusSoldPrior == <<"S","o","l","d"," ","P","r","i","o","r">>
StatusZero == GuidePrefix \o <<"0","+","*">>

CapitalAssuredShorthold ==
    <<"A","s","s","u","r","e","d"," ","S","h","o","r","t","h","o","l","d">>

DescriptionAst ==
    <<"A","n"," ">> \o AssuredShorthold \o <<" ","a","t"," ","£","1","5",",",
      "4","0","0">> \o PerAnnum \o <<".","\n">>
DescriptionRent == <<"L","e","t"," ","a","t"," ","£","1">> \o PerAnnum
DescriptionOld == <<"o","l","d">>

HeaderTr(td) == Tr(TRUE, td, <<>>, <<>>, <<>>)
DetailTr(d) == Tr(FALSE, <<>>, <<d>>, <<DetailsHref>>, <<LotImageSrc>>)

\* the kinds of table row the pages of the pipeline runs are built from
TrKinds ==
    { HeaderTr(<<LotText, AddressText, PostcodeText, StatusRange>>),
      HeaderTr(<<LotText, AddressText, PostcodeText, StatusSoldPrior, ExtraText>>),
      HeaderTr(<<LotText, AddressText, PostcodeText>>),
      DetailTr(DescriptionAst),
      DetailTr(DescriptionRent),
      Tr(FALSE, <<>>, <<>>, <<DetailsHref>>, <<LotImageSrc>>) }

Pages == SeqsUpTo(TrKinds, MaxTrs)

\* the characters generated status cells are built from, and the pieces
\* generated descriptions are built from
TailAlphabet == {"1", "£", "*", "+", "\n"}
Segments ==
    { AssuredShorthold, CapitalAssuredShorthold, PerAnnum,
      <<"£">>, <<"1">>, <<"0">> }

StatusCells ==
    {GuidePrefix \o tl : tl \in SeqsUpTo(TailAlphabet, MaxTail)}
    \cup {StatusRange, StatusPlus, StatusSoldPrior, <<" ">> \o StatusPlus,
          <<"x">> \o StatusPlus,
          GuidePrefix \o <<",", "+", "*">>,
          GuidePrefix \o <<"1", ",", "1", "+", "*">>,
          GuidePrefix \o <<"1", ",", "-", "£", ",", "*">>}

Descriptions ==
    {Flatten(ss) : ss \in SeqsUpTo(Segments, MaxSegs)}
    \cup {DescriptionAst, DescriptionRent,
          AssuredShorthold \o <<"£", "1", ".", "5">> \o PerAnnum,
          AssuredShorthold \o <<"£", ".">> \o PerAnnum,
          AssuredShorthold \o <<"£", "1", ",", "0", "0", "0">> \o PerAnnum}

\* one header row and its detail row, with generated text
RowPages ==
    {<<HeaderTr(<<LotText, AddressText, PostcodeText, st>>), DetailTr(d)>> :
        <<st, d>> \in (StatusCells \X {DescriptionAst})
                      \cup ({StatusRange, StatusZero} \X Descriptions)}

\* what the command line can hold after the program name
Argvs == {<<>>, <<"">>, <<"sample_page.html">>}

StatusCodes == {200, 404, 500}
Encodings == {"utf-8", "ISO-8859-1"}

\* sample_page.html as an earlier run left it
OldSnapshot == <<DetailTr(DescriptionOld)>>

NoResponse == [t |-> "none"]
NoRow == [t |-> "none"]

----------------------------------------------------------------------------
(* The program *)

InitWith(args, pages) ==
    /\ argv \in args
    /\ page \in pages
    /\ pc = "main"
    /\ exc = "none"
    /\ response = NoResponse
    /\ gets = 0
    /\ sample_page = OldSnapshot
    /\ writes = 0
    /\ html_string = <<>>
    /\ stdout = <<>>
    /\ i = 0
    /\ row = NoRow

Init == InitWith(Argvs, Pages)

InitRows == InitWith({<<"sample_page.html">>}, RowPages)

\* __main__ and `if html_filename:` in main
html_filename == IF Len(argv) > 0 THEN PyStr(argv[1]) ELSE None
FilenameTruthy(f) == f.t = "str" /\ f.str # ""

\* raise_for_status that lets client errors through
raise_for_status_server_errors_only(status_code) ==
    status_code >= 500 /\ status_code < 600

\* Response.raise_for_status
raise_for_status(status_code) == status_code >= 400 /\ status_code < 600

Fail(e) ==
    /\ pc' = "error"
    /\ exc' = e

\* main -> html_from_file
HtmlFromFile ==
    /\ pc = "main"
    /\ FilenameTruthy(html_filename)
    /\ \E readable \in BOOLEAN :
          IF readable
          THEN /\ html_string' = page
               /\ pc' = "output_csv"
               /\ UNCHANGED exc
          ELSE /\ Fail("IOError")
               /\ UNCHANGED html_string
    /\ UNCHANGED <<argv, page, response, gets, sample_page, writes, stdout, i, row>>

\* html_from_url writing the snapshot without the encoding assertion
HtmlFromUrlWithoutEncodingCheck ==
    /\ pc = "main"
    /\ ~FilenameTruthy(html_filename)
    /\ \E status_code \in StatusCodes, encoding \in Encodings :
          /\ gets' = gets + 1
          /\ response' = [t |-> "response", status_code |-> status_code,
                          encoding |-> encoding]
          /\ IF raise_for_status(status_code)
             THEN /\ Fail("HTTPError")
                  /\ UNCHANGED <<sample_page, writes, html_string>>
             ELSE /\ sample_page' = page
                  /\ writes' = writes + 1
                  /\ html_string' = page
                  /\ pc' = "output_csv"
                  /\ UNCHANGED exc
    /\ UNCHANGED <<argv, page, stdout, i, row>>

\* main -> html_from_url -> write_back_page_to_file
HtmlFromUrl ==
    /\ pc = "main"
    /\ ~FilenameTruthy(html_filename)
    /\ \E status_code \in StatusCodes, encoding \in Encodings :
          /\ gets' = gets + 1
          /\ response' = [t |-> "response", status_code |-> status_code,
                          encoding |-> encoding]
          /\ IF raise_for_status(status_code)
             THEN /\ Fail("HTTPError")
                  /\ UNCHANGED <<sample_page, writes, html_string>>
             ELSE IF encoding # PAGE_ENCODING
             THEN /\ Fail("AssertionError")
                  /\ UNCHANGED <<sample_page, writes, html_string>>
             ELSE /\ sample_page' = page
                  /\ writes' = writes + 1
                  /\ html_string' = page
                  /\ pc' = "output_csv"
                  /\ UNCHANGED exc
    /\ UNCHANGED <<argv, page, stdout, i, row>>

\* output_csv: writer.writeheader(); the generator has not started
WriteHeader ==
    /\ pc = "output_csv"
    /\ stdout' = Append(stdout, FIELDS)
    /\ pc' = "next"
    /\ UNCHANGED <<argv, page, exc, response, gets, sample_page, writes,
                   html_string, i, row>>

\* a generator that extracts every remaining row before yielding one, as
\* list(get_rows_from_page(html)) would
NextRowEager ==
    /\ pc = "next"
    /\ \E trs \in {HeaderTrs(html_string)} :
          IF i = Len(trs)
          THEN /\ pc' = "done"
               /\ UNCHANGED <<exc, i, row>>
          ELSE \E bad \in {{k \in (i + 1)..Len(trs) :
                              IsRaise(RowFor(html_string, trs[k]))}} :
                  IF bad # {}
                  THEN /\ i' = Least(bad)
                       /\ Fail(RowFor(html_string, trs[Least(bad)]).exc)
                       /\ UNCHANGED row
                  ELSE /\ i' = i + 1
                       /\ row' = RowFor(html_string, trs[i + 1])
                       /\ pc' = "writerow"
                       /\ UNCHANGED exc
    /\ UNCHANGED <<argv, page, response, gets, sample_page, writes,
                   html_string, stdout>>

\* the for loop of output_csv asks the generator for its next row:
\* get_rows_from_page runs up to its next yield, or to its end
NextRow ==
    /\ pc = "next"
    /\ \E trs \in {HeaderTrs(html_string)} :
          IF i = Len(trs)
          THEN /\ pc' = "done"
               /\ UNCHANGED <<exc, i, row>>
          ELSE \E r \in {RowFor(html_string, trs[i + 1])} :
                  /\ i' = i + 1
                  /\ IF IsRaise(r)
                     THEN /\ Fail(r.exc)
                          /\ UNCHANGED row
                     ELSE /\ row' = r
                          /\ pc' = "writerow"
                          /\ UNCHANGED exc
    /\ UNCHANGED <<argv, page, response, gets, sample_page, writes,
                   html_string, stdout>>

\* writer.writerow(row)
WriteRow ==
    /\ pc = "writerow"
    /\ IF DOMAIN row.d \subseteq FieldSet
       THEN /\ stdout' = Append(stdout, CsvRecord(row.d))
            /\ pc' = "next"
            /\ UNCHANGED exc
       ELSE /\ Fail("ValueError")
            /\ UNCHANGED stdout
    /\ UNCHANGED <<argv, page, response, gets, sample_page, writes,
                   html_string, i, row>>

Next == HtmlFromFile \/ HtmlFromUrl \/ WriteHeader \/ NextRow \/ WriteRow

NextRows == HtmlFromFile \/ WriteHeader \/ NextRow \/ WriteRow

Spec == Init /\ [][Next]_vars

SpecRows == InitRows /\ [][NextRows]_vars

----------------------------------------------------------------------------
(* Notions the claims are stated in *)

\* a field of the row is absent: the key is missing or its value is None
Absent(d, f) == f \notin DOMAIN d \/ IsNone(d[f])

\* a non-empty file path was given on the command line
PathGiven == Len(argv) > 0 /\ argv[1] # ""

\* a response has arrived, and what it says
Responded == response.t = "response"
SuccessStatus == Responded /\ response.status_code \in 200..299
EncodingMatches == Responded /\ response.encoding = "utf-8"

\* the header rows of the document, counted and located without the parser
HeaderCount == Cardinality({k \in 1..Len(page) : page[k].header})
HeaderAt(n) ==
    CHOOSE k \in 1..Len(page) :
        /\ page[k].header
        /\ Cardinality({j \in 1..k : page[j].header}) = n

\* the header row whose extraction was attempted last, and the number of
\* rows that follow it in its table
CurrentHeader == page[HeaderAt(i)]
FollowingSiblings == Len(page) - HeaderAt(i)

\* the first i - 1 rows have been written after the header line
WrittenBefore(n) ==
    /\ Len(stdout) = n
    /\ stdout[1] = FIELDS
    /\ \A k \in 1..(n - 1) :
          stdout[k + 1] = CsvRecord(RowFor(page, HeaderAt(k)).d)

----------------------------------------------------------------------------
(* C1 *)

----------------------------------------------------------------------------
(* C2 *)

----------------------------------------------------------------------------
(* C3 *)

\* C3 as claimed: a row is produced for a header row only if the header
\* row has exactly one following sibling row
C3_ExactlyOneSibling ==
    pc = "writerow" => FollowingSiblings = 1

\* C3 as amended: a header row with no following sibling row makes the run
\* halt in error with no row for it; a header row with one or more takes
\* the first of them as its detail row, however many follow
C3_FirstSiblingIsDetail ==
    /\ (i >= 1 /\ FollowingSiblings = 0)
          => (pc = "error" /\ exc = "IndexError" /\ Len(stdout) = i)
    /\ pc = "writerow"
          => /\ FollowingSiblings >= 1
             /\ page[HeaderAt(i) + 1].p # <<>>
             /\ row.d["description"].str = page[HeaderAt(i) + 1].p[1]

C3_Witness ==
    /\ pc = "writerow"
    /\ FollowingSiblings = 3
    /\ row.d["description"].str = DescriptionAst
    /\ page[Len(page)].p = <<DescriptionRent>>

----------------------------------------------------------------------------
(* C9 *)

----------------------------------------------------------------------------
(* C8 *)

\* C8: when the run is done over a document with N header rows, standard
\* output holds the header line and N records of 16 cells, one per header
\* row in document order; a row's keys are among the 16 columns and a field
\* absent from the row is an empty cell
C8_HeaderAndOneRecordPerRow ==
    /\ pc = "done"
          => /\ Len(stdout) = HeaderCount + 1
             /\ stdout[1] = FIELDS
             /\ Len(FIELDS) = 16
             /\ \A n \in 1..HeaderCount :
                   /\ Len(stdout[n + 1]) = 16
                   /\ stdout[n + 1][4] = Strip(page[HeaderAt(n)].td[4])
                   /\ stdout[n + 1][14] = page[HeaderAt(n) + 1].p[1]
    /\ (row # NoRow /\ Len(stdout) = i + 1)
          => /\ DOMAIN row.d \subseteq FieldSet
             /\ \A j \in 1..16 :
                   Absent(row.d, FIELDS[j]) => stdout[i + 1][j] = <<>>

C8_Witness ==
    /\ pc = "done"
    /\ Len(stdout) = 3
    /\ stdout[2][4] = StatusRange
    /\ stdout[2][5] = <<"1","0","0","0","0","0">>
    /\ stdout[3][4] = StatusSoldPrior
    /\ stdout[3][5] = <<>>
    /\ stdout[3][8] = <<>>

----------------------------------------------------------------------------
(* C10 *)

\* C10: the header line is written before any row is extracted and row k
\* before row k+1 is extracted; when the extraction of row k fails, standard
\* output holds the header line and rows 1 to k-1 and the run takes no
\* further step; a run that is done has emitted every row
C10_LazyIncremental ==
    /\ [](/\ (pc = "next" /\ i = 0) => (stdout = <<FIELDS>> /\ row = NoRow)
          /\ pc = "writerow" => WrittenBefore(i)
          /\ (pc = "error" /\ i >= 1) => WrittenBefore(i)
          /\ pc = "done" => WrittenBefore(HeaderCount + 1))
    /\ [][pc # "error" /\ pc # "done"]_vars

C10_Witness ==
    /\ pc = "error"
    /\ i = 2
    /\ Len(stdout) = 2
    /\ HeaderCount = 2

----------------------------------------------------------------------------
(* C4 *)

\* the status string of the header row: the stripped text of its cell 3
StatusText == Strip(CurrentHeader.td[4])

\* the price a string of digits and commas stands for
ClaimPrice(amount) ==
    IF \E k \in 1..Len(amount) : amount[k] \in DigitSet
    THEN PyInt(DigitsValue(SelectSeq(amount, LAMBDA c : c \in DigitSet)))
    ELSE Raise("ValueError")

\* the ways to read st as 'Guide Price: £{low}{mid}£{high}*' with low and
\* high made of digits and commas and mid one or more characters, none of
\* them in excluded: <<last position of low, position of the second £>>
RangeSplits(st, excluded) ==
    IF ~(HasAt(st, 1, GuidePrefix) /\ st[Len(st)] = "*") THEN {}
    ELSE {x \in ((Len(GuidePrefix) + 1)..Len(st))
                \X ((Len(GuidePrefix) + 1)..Len(st)) :
            /\ x[2] >= x[1] + 2
            /\ x[2] + 1 <= Len(st) - 1
            /\ \A j \in (Len(GuidePrefix) + 1)..x[1] : st[j] \in PriceClass
            /\ \A j \in (x[1] + 1)..(x[2] - 1) : st[j] \notin excluded
            /\ st[x[2]] = "£"
            /\ \A j \in (x[2] + 1)..(Len(st) - 1) : st[j] \in PriceClass}

\* st reads as 'Guide Price: £{price}+*'
IsSinglePlus(st) ==
    /\ HasAt(st, 1, GuidePrefix)
    /\ Len(st) >= Len(GuidePrefix) + 3
    /\ st[Len(st)] = "*"
    /\ st[Len(st) - 1] = "+"
    /\ \A j \in (Len(GuidePrefix) + 1)..(Len(st) - 2) : st[j] \in PriceClass

\* the results the two patterns, tried in order, allow for st
GuidePriceResults(st, excluded) ==
    IF RangeSplits(st, excluded) # {}
    THEN {Pair(ClaimPrice(SubSeq(st, Len(GuidePrefix) + 1, x[1])),
               ClaimPrice(SubSeq(st, x[2] + 1, Len(st) - 1))) :
          x \in RangeSplits(st, excluded)}
    ELSE IF IsSinglePlus(st)
    THEN {Pair(ClaimPrice(SubSeq(st, Len(GuidePrefix) + 1, Len(st) - 2)),
               ClaimPrice(SubSeq(st, Len(GuidePrefix) + 1, Len(st) - 2)))}
    ELSE {Pair(None, None)}

\* what the extraction of the row made of its guide prices: the pair in the
\* row, or the exception that ended the run
GuidePriceOutcome ==
    IF pc = "writerow"
    THEN Pair(row.d["guide_price_low"], row.d["guide_price_high"])
    ELSE Raise(exc)

\* the row has been extracted, or its extraction failed on a price of the
\* status
GuidePricesDecided ==
    /\ i = 1
    /\ pc \in {"writerow", "error"}
    /\ ~IsRaise(ast_annual_income(page[HeaderAt(1) + 1]))

\* the three statuses the claim names
C4_Examples ==
    pc = "writerow" =>
        /\ StatusText = StatusRange
              => GuidePriceOutcome = Pair(PyInt(100000), PyInt(120000))
        /\ StatusText = StatusPlus
              => GuidePriceOutcome = Pair(PyInt(250000), PyInt(250000))
        /\ StatusText = StatusSoldPrior
              => GuidePriceOutcome = Pair(None, None)

\* C4 as claimed: the guide prices are (price(low), price(high)) when the
\* status reads 'Guide Price: £{low}<one or more characters>£{high}*',
\* else (price, price) when it reads 'Guide Price: £{price}+*', else
\* (absent, absent)
C4_AnyCharactersBetween ==
    /\ GuidePricesDecided
          => GuidePriceOutcome \in GuidePriceResults(StatusText, {})
    /\ C4_Examples

\* C4 as amended: as claimed, with the characters between the two amounts
\* being one or more characters other than a newline; an amount without a
\* digit makes price fail, which ends the run
C4_NoNewlineBetween ==
    /\ GuidePricesDecided
          => GuidePriceOutcome \in GuidePriceResults(StatusText, {"\n"})
    /\ C4_Examples

C4_Witness ==
    /\ pc = "writerow"
    /\ RangeSplits(StatusText, {}) # {}
    /\ RangeSplits(StatusText, {"\n"}) = {}
    /\ GuidePriceOutcome = Pair(None, None)

----------------------------------------------------------------------------
(* C5, C6, C7 *)

\* two characters are the same letter, whatever their case
SameLetter(a, b) ==
    a = b \/ \E j \in 1..26 : {a, b} = {UpperCase[j], LowerCase[j]}

\* text contains 'assured shorthold', case-insensitively
MentionsAssuredShorthold(txt) ==
    \E q \in 0..(Len(txt) - Len(AssuredShorthold)) :
        \A k \in 1..Len(AssuredShorthold) :
            SameLetter(txt[q + k], AssuredShorthold[k])

\* text contains a '£{amount} per annum' clause
MentionsAnnualAmount(txt) ==
    \E q \in 1..Len(txt), n \in 1..Len(txt) :
        /\ txt[q] = "£"
        /\ \A k \in 1..n : q + k <= Len(txt) /\ txt[q + k] \in IncomeClass
        /\ HasAt(txt, q + n + 1, PerAnnum)

\* the cells of a record that hold the income, the four yield prices and
\* the yield of the high guide price
DerivedColumns == {7, 8, 9, 10, 11, 13}

\* C5: a row whose description does not mention 'assured shorthold', in
\* any case, has has_assured_shorthold_tenancy false and no
\* ast_annual_income, no yield price and no _yield_guide_price_high, and
\* its record has these cells empty
C5_NoTenancyNoIncome ==
    /\ (pc = "writerow" /\ ~MentionsAssuredShorthold(row.d["description"].str))
          => /\ row.d["has_assured_shorthold_tenancy"] = PyBool(FALSE)
             /\ Absent(row.d, "ast_annual_income")
             /\ \A f \in YieldKeys : Absent(row.d, f)
             /\ Absent(row.d, "_yield_guide_price_high")
    /\ (pc = "writerow" /\ MentionsAssuredShorthold(row.d["description"].str))
          => row.d["has_assured_shorthold_tenancy"] = PyBool(TRUE)
    /\ (Len(stdout) = 2 /\ stdout[2][12] = <<"F","a","l","s","e">>)
          => \A j \in DerivedColumns : stdout[2][j] = <<>>

C5_Witness ==
    /\ pc = "writerow"
    /\ ~MentionsAssuredShorthold(row.d["description"].str)
    /\ MentionsAnnualAmount(row.d["description"].str)
    /\ row.d["guide_price_high"] = PyInt(120000)

\* the value of the field f of the row is the fraction n/d
IsFraction(d, f, n, dd) ==
    /\ f \in DOMAIN d
    /\ d[f].t = "float"
    /\ d[f].n * dd = n * d[f].d

\* C6 as claimed: a row whose ast_annual_income is an integer, 0 included,
\* has the four yield prices, each the income divided by its rate; a row
\* without ast_annual_income has none of them
C6_YieldPricesWhenIncome ==
    pc = "writerow" =>
        /\ row.d["ast_annual_income"].t = "int"
              => /\ IsFraction(row.d, "_price_10pct_yield",
                               row.d["ast_annual_income"].int * 100, 10)
                 /\ IsFraction(row.d, "_price_12.5pct_yield",
                               row.d["ast_annual_income"].int * 1000, 125)
                 /\ IsFraction(row.d, "_price_15pct_yield",
                               row.d["ast_annual_income"].int * 100, 15)
                 /\ IsFraction(row.d, "_price_20pct_yield",
                               row.d["ast_annual_income"].int * 100, 20)
        /\ Absent(row.d, "ast_annual_income")
              => \A f \in YieldKeys : Absent(row.d, f)

====
